---------------------------- MODULE Spec2Model ----------------------------
(***************************************************************************)
(* Model of src/reorder.rs: the reordering of `mod`, `extern crate` and    *)
(* `use` declarations.                                                     *)
(*                                                                         *)
(*   compare_items                              -> CompareItems            *)
(*   rewrite_reorderable_or_regroupable_items   -> RewriteItems            *)
(*   group_imports                              -> GroupImports            *)
(*   ReorderableItemKind                        -> From, IsReorderable ... *)
(*   FmtVisitor::walk_reorderable_or_regroupable_items -> WalkRun          *)
(*   FmtVisitor::visit_items_with_reordering    -> WalkRun \/ VisitSingle  *)
(*                                                                         *)
(* A name is the sequence of the code points of an identifier.  An         *)
(* Option<T> is a sequence of length at most one: <<>> is None and <<x>>   *)
(* is Some(x).                                                             *)
(***************************************************************************)
EXTENDS Naturals, Sequences, FiniteSets, Bags

VARIABLES
  cfg,        \* context.config: the options read by this file
  items,      \* the declarations handed to visit_items_with_reordering
  pos,        \* index in items of the head of the remaining slice
  prev_item,  \* Option<&ast::Item> as an index into items, 0 for None
  out,        \* what the visitor has pushed so far, in order
  cmp         \* the Ordering returned by compare_items, "None" before the call

vars == <<cfg, items, pos, prev_item, out, cmp>>

\* ------------------------------------------------------------------ bounds

\* longest declaration sequence handed to the walker
MaxItems == 3

\* longest identifier handed to compare_items
MaxNameLen == 2

\* ------------------------------------------------------------------ names

Edition2021 == 2021

StyleEditions == {2015, 2018, 2021, 2024}

None == <<>>

Some(x) == <<x>>

IsDigit(c) == c \in 48..57

\* str::cmp: byte-wise lexicographic order
RECURSIVE StrCmp(_, _)
StrCmp(a, b) ==
  IF a = <<>> /\ b = <<>> THEN "Equal"
  ELSE IF a = <<>> THEN "Less"
  ELSE IF b = <<>> THEN "Greater"
  ELSE IF Head(a) < Head(b) THEN "Less"
  ELSE IF Head(a) > Head(b) THEN "Greater"
  ELSE StrCmp(Tail(a), Tail(b))

\* length of the run of digits a name starts with
RECURSIVE DigitRun(_)
DigitRun(a) ==
  IF a = <<>> \/ ~IsDigit(Head(a)) THEN 0 ELSE 1 + DigitRun(Tail(a))

\* value of a run of digits
RECURSIVE DigitValue(_)
DigitValue(d) ==
  IF d = <<>> THEN 0
  ELSE 10 * DigitValue(SubSeq(d, 1, Len(d) - 1)) + (d[Len(d)] - 48)

\* crate::sort::version_sort: runs of digits compare by value, the rest by
\* code point
RECURSIVE VersionSort(_, _)
VersionSort(a, b) ==
  IF a = <<>> /\ b = <<>> THEN "Equal"
  ELSE IF a = <<>> THEN "Less"
  ELSE IF b = <<>> THEN "Greater"
  ELSE IF IsDigit(Head(a)) /\ IsDigit(Head(b)) THEN
    LET na == DigitRun(a)
        nb == DigitRun(b)
        va == DigitValue(SubSeq(a, 1, na))
        vb == DigitValue(SubSeq(b, 1, nb))
    IN  IF va < vb THEN "Less"
        ELSE IF va > vb THEN "Greater"
        ELSE IF na > nb THEN "Less"
        ELSE IF na < nb THEN "Greater"
        ELSE VersionSort(SubSeq(a, na + 1, Len(a)), SubSeq(b, nb + 1, Len(b)))
  ELSE IF Head(a) < Head(b) THEN "Less"
  ELSE IF Head(a) > Head(b) THEN "Greater"
  ELSE VersionSort(Tail(a), Tail(b))

\* ------------------------------------------------------------ declarations

\* an ast::Item with what this file reads of it:
\*   kind       item.kind: "Use", "ExternCrate", "Mod", "Fn", "ForeignMod", ...
\*   skip       contains_skip(&item.attrs)
\*   macro_use  attr::contains_name(&item.attrs, sym::macro_use)
\*   decl       is_mod_decl(item)
\*   ident      the identifier of a Mod or ExternCrate
\*   orig       the Option<Symbol> of ExternCrate: Some(foo) in
\*              `extern crate foo as bar`
\*   path       the path of the use tree of a Use
\*   gap        newlines between the end of the item before and the start
\*   height     lines the item spans beyond its first
\*   fails      the item's own rewrite returns Err
\*   in_range   !out_of_file_lines_range!(self, item.span)
DefaultItem ==
  [kind |-> "Fn", skip |-> FALSE, macro_use |-> FALSE, decl |-> FALSE,
   ident |-> <<97>>, orig |-> None, path |-> <<>>, gap |-> 1,
   height |-> 0, fails |-> FALSE, in_range |-> TRUE]

\* ----------------------------------------------------------- compare_items

\* the mutant: an unaliased crate against an aliased one of the same origin
\* is Greater, whichever comes first
CompareItemsTieOneWay(c, a, b) ==
  IF a.kind = "Mod" /\ b.kind = "Mod" THEN
    IF c.style_edition <= Edition2021
    THEN StrCmp(a.ident, b.ident)
    ELSE VersionSort(a.ident, b.ident)
  ELSE IF a.kind = "ExternCrate" /\ b.kind = "ExternCrate" THEN
    LET a_orig_name == IF a.orig = None THEN a.ident ELSE a.orig[1]
        b_orig_name == IF b.orig = None THEN b.ident ELSE b.orig[1]
        result == IF c.style_edition <= Edition2021
                  THEN StrCmp(a_orig_name, b_orig_name)
                  ELSE VersionSort(a_orig_name, b_orig_name)
    IN  IF result # "Equal" THEN result
        ELSE IF a.orig # None /\ b.orig = None THEN "Greater"
        ELSE IF a.orig = None /\ b.orig # None THEN "Greater"
        ELSE IF a.orig = None /\ b.orig = None THEN "Equal"
        ELSE IF c.style_edition <= Edition2021
             THEN StrCmp(a.ident, b.ident)
             ELSE VersionSort(a.ident, b.ident)
  ELSE "Unreachable"

\* the mutant: the local name is compared first, where the origin name
\* should be
CompareItemsByLocalName(c, a, b) ==
  IF a.kind = "Mod" /\ b.kind = "Mod" THEN
    IF c.style_edition <= Edition2021
    THEN StrCmp(a.ident, b.ident)
    ELSE VersionSort(a.ident, b.ident)
  ELSE IF a.kind = "ExternCrate" /\ b.kind = "ExternCrate" THEN
    LET result == IF c.style_edition <= Edition2021
                  THEN StrCmp(a.ident, b.ident)
                  ELSE VersionSort(a.ident, b.ident)
    IN  IF result # "Equal" THEN result
        ELSE IF a.orig # None /\ b.orig = None THEN "Greater"
        ELSE IF a.orig = None /\ b.orig # None THEN "Less"
        ELSE IF a.orig = None /\ b.orig = None THEN "Equal"
        ELSE IF c.style_edition <= Edition2021
             THEN StrCmp(a.ident, b.ident)
             ELSE VersionSort(a.ident, b.ident)
  ELSE "Unreachable"

\* compare_items; "Unreachable" is the unreachable!() arm
CompareItems(c, a, b) ==
  IF a.kind = "Mod" /\ b.kind = "Mod" THEN
    IF c.style_edition <= Edition2021
    THEN StrCmp(a.ident, b.ident)
    ELSE VersionSort(a.ident, b.ident)
  ELSE IF a.kind = "ExternCrate" /\ b.kind = "ExternCrate" THEN
    LET a_orig_name == IF a.orig = None THEN a.ident ELSE a.orig[1]
        b_orig_name == IF b.orig = None THEN b.ident ELSE b.orig[1]
        result == IF c.style_edition <= Edition2021
                  THEN StrCmp(a_orig_name, b_orig_name)
                  ELSE VersionSort(a_orig_name, b_orig_name)
    IN  IF result # "Equal" THEN result
        ELSE IF a.orig # None /\ b.orig = None THEN "Greater"
        ELSE IF a.orig = None /\ b.orig # None THEN "Less"
        ELSE IF a.orig = None /\ b.orig = None THEN "Equal"
        ELSE IF c.style_edition <= Edition2021
             THEN StrCmp(a.ident, b.ident)
             ELSE VersionSort(a.ident, b.ident)
  ELSE "Unreachable"

\* ------------------------------------------------------ ReorderableItemKind

\* contains_macro_use_attr
ContainsMacroUseAttr(item) == item.macro_use

\* the mutant: only the skip attribute makes an item Other
FromIgnoringMacroUse(item) ==
  IF item.skip THEN "Other"
  ELSE IF item.kind = "ExternCrate" THEN "ExternCrate"
  ELSE IF item.kind = "Mod" /\ item.decl THEN "Mod"
  ELSE IF item.kind = "Use" THEN "Use"
  ELSE "Other"

\* ReorderableItemKind::from
From(item) ==
  IF ContainsMacroUseAttr(item) \/ item.skip THEN "Other"
  ELSE IF item.kind = "ExternCrate" THEN "ExternCrate"
  ELSE IF item.kind = "Mod" /\ item.decl THEN "Mod"
  ELSE IF item.kind = "Use" THEN "Use"
  ELSE "Other"

\* the mutant: any declaration of a reorderable kind continues the run
IsSameItemKindLoose(item_kind, item) == From(item) # "Other"

\* ReorderableItemKind::is_same_item_kind
IsSameItemKind(item_kind, item) == From(item) = item_kind

\* ReorderableItemKind::is_reorderable
IsReorderable(item_kind, c) ==
  CASE item_kind = "ExternCrate" -> c.reorder_imports
    [] item_kind = "Mod" -> c.reorder_modules
    [] item_kind = "Use" -> c.reorder_imports
    [] OTHER -> FALSE

\* ReorderableItemKind::is_regroupable
IsRegroupable(item_kind, c) ==
  CASE item_kind = "Use" -> c.group_imports # "Preserve"
    [] OTHER -> FALSE

\* the mutant: imports are split at blank lines under every group_imports
InGroupAlwaysForUse(item_kind, c) ==
  item_kind \in {"ExternCrate", "Mod", "Use"}

\* ReorderableItemKind::in_group
InGroup(item_kind, c) ==
  CASE item_kind \in {"ExternCrate", "Mod"} -> TRUE
    [] item_kind = "Use" -> c.group_imports = "Preserve"
    [] OTHER -> FALSE

\* FmtVisitor::is_item_like
IsItemLike(item) ==
  item.kind \in {"Fn", "Struct", "Enum", "Impl", "Trait", "Mod", "Union",
                 "TyAlias", "Const", "Static", "MacroDef", "MacCall"}

\* ------------------------------------------------------------- line ranges

\* psess.lookup_line_range(item.span()).lo: the line an item starts on
RECURSIVE LineLo(_, _)
LineLo(its, i) ==
  IF i = 1 THEN 1 ELSE LineLo(its, i - 1) + its[i - 1].height + its[i].gap

\* psess.lookup_line_range(item.span()).hi: the line an item ends on
LineHi(its, i) == LineLo(its, i) + its[i].height

\* count_newlines(snippet(mk_sp(prev.span().hi(), next.span().lo())))
CountNewlines(its, p, n) == LineLo(its, n) - LineHi(its, p)

\* --------------------------------------------------------------- use trees

\* UseSegmentKind
Ident(n) == [kind |-> "Ident", name |-> n, list |-> <<>>]

Slf == [kind |-> "Slf", name |-> <<>>, list |-> <<>>]

Super == [kind |-> "Super", name |-> <<>>, list |-> <<>>]

Crate == [kind |-> "Crate", name |-> <<>>, list |-> <<>>]

Glob == [kind |-> "Glob", name |-> <<>>, list |-> <<>>]

\* a nested list of paths; the empty path in it stands for `self`
List(ps) == [kind |-> "List", name |-> <<>>, list |-> ps]

\* UseTree: its path and whether rewrite_top_level returns Err for it
UseTree(p, f) == [path |-> p, fails |-> f]

\* the single-leaf trees of a tree, in the order written
Leaves(ut) ==
  IF ut.path # <<>> /\ ut.path[Len(ut.path)].kind = "List" THEN
    LET prefix == SubSeq(ut.path, 1, Len(ut.path) - 1)
        subs == ut.path[Len(ut.path)].list
    IN  [k \in 1..Len(subs) |-> UseTree(prefix \o subs[k], ut.fails)]
  ELSE <<ut>>

\* flatten_use_trees
RECURSIVE FlattenUseTrees(_)
FlattenUseTrees(uts) ==
  IF uts = <<>> THEN <<>>
  ELSE Leaves(Head(uts)) \o FlattenUseTrees(Tail(uts))

\* the ordering of two segments: self < super < crate < identifier <
\* nested list < glob, identifiers by name under the edition's policy
SegRank(seg) ==
  CASE seg.kind = "Slf" -> 0
    [] seg.kind = "Super" -> 1
    [] seg.kind = "Crate" -> 2
    [] seg.kind = "Ident" -> 3
    [] seg.kind = "List" -> 4
    [] OTHER -> 5

RECURSIVE CmpSimplePath(_, _, _)
CmpSimplePath(c, p, q) ==
  IF p = <<>> /\ q = <<>> THEN "Equal"
  ELSE IF p = <<>> THEN "Less"
  ELSE IF q = <<>> THEN "Greater"
  ELSE LET s == Head(p)
           t == Head(q)
           o == IF SegRank(s) < SegRank(t) THEN "Less"
                ELSE IF SegRank(s) > SegRank(t) THEN "Greater"
                ELSE IF s.kind # "Ident" THEN "Equal"
                ELSE IF c.style_edition <= Edition2021
                     THEN StrCmp(s.name, t.name)
                     ELSE VersionSort(s.name, t.name)
       IN  IF o # "Equal" THEN o ELSE CmpSimplePath(c, Tail(p), Tail(q))

RECURSIVE CmpPathSeq(_, _, _)
CmpPathSeq(c, ps, qs) ==
  IF ps = <<>> /\ qs = <<>> THEN "Equal"
  ELSE IF ps = <<>> THEN "Less"
  ELSE IF qs = <<>> THEN "Greater"
  ELSE LET o == CmpSimplePath(c, Head(ps), Head(qs))
       IN  IF o # "Equal" THEN o ELSE CmpPathSeq(c, Tail(ps), Tail(qs))

\* the Ord of UseTree, on paths
RECURSIVE CmpPath(_, _, _)
CmpPath(c, p, q) ==
  IF p = <<>> /\ q = <<>> THEN "Equal"
  ELSE IF p = <<>> THEN "Less"
  ELSE IF q = <<>> THEN "Greater"
  ELSE LET s == Head(p)
           t == Head(q)
           o == IF s.kind = "List" /\ t.kind = "List"
                THEN CmpPathSeq(c, s.list, t.list)
                ELSE CmpSimplePath(c, <<s>>, <<t>>)
       IN  IF o # "Equal" THEN o ELSE CmpPath(c, Tail(p), Tail(q))

\* one step of a stable insertion sort of trees by path
RECURSIVE InsertTree(_, _, _)
InsertTree(c, sorted, x) ==
  IF sorted = <<>> THEN <<x>>
  ELSE IF CmpPath(c, x.path, Head(sorted).path) = "Less" THEN <<x>> \o sorted
  ELSE <<Head(sorted)>> \o InsertTree(c, Tail(sorted), x)

\* Vec<UseTree>::sort
RECURSIVE SortTrees(_, _)
SortTrees(c, uts) ==
  IF uts = <<>> THEN <<>>
  ELSE InsertTree(c, SortTrees(c, SubSeq(uts, 1, Len(uts) - 1)), uts[Len(uts)])

\* UseTree::normalize: a nested list is sorted
NormalizeUseTree(c, ut) ==
  IF ut.path # <<>> /\ ut.path[Len(ut.path)].kind = "List" THEN
    LET subs == ut.path[Len(ut.path)].list
        sorted == SortTrees(c, [k \in 1..Len(subs) |-> UseTree(subs[k], FALSE)])
    IN  UseTree(SubSeq(ut.path, 1, Len(ut.path) - 1)
                  \o <<List([k \in 1..Len(sorted) |-> sorted[k].path])>>,
                ut.fails)
  ELSE ut

\* UseTree::from_ast_with_normalization
FromAstWithNormalization(c, item) ==
  IF item.kind = "Use" THEN Some(NormalizeUseTree(c, UseTree(item.path, item.fails)))
  ELSE None

\* ----------------------------------- normalize_use_trees_with_granularity

\* the prefix two leaves must share to be merged under a granularity
SharedPrefix(g, p) ==
  CASE g = "Crate" -> IF p = <<>> THEN <<>> ELSE <<p[1]>>
    [] g = "Module" -> IF p = <<>> THEN <<>> ELSE SubSeq(p, 1, Len(p) - 1)
    [] OTHER -> <<>>

\* merge each leaf into the first tree that shares its prefix; a tree under
\* construction is its prefix, the rests of its leaves, and its failure
RECURSIVE MergeUseTrees(_, _, _)
MergeUseTrees(g, merged, leaves) ==
  IF leaves = <<>> THEN merged
  ELSE
    LET l == Head(leaves)
        k == SharedPrefix(g, l.path)
        r == SubSeq(l.path, Len(k) + 1, Len(l.path))
        hit == {i \in 1..Len(merged) : merged[i].prefix = k}
    IN  IF hit # {} THEN
          LET i == CHOOSE x \in hit : \A y \in hit : x <= y
          IN  MergeUseTrees(g,
                [merged EXCEPT ![i] = [prefix |-> k,
                                       rests |-> Append(merged[i].rests, r),
                                       fails |-> merged[i].fails \/ l.fails]],
                Tail(leaves))
        ELSE
          MergeUseTrees(g,
            Append(merged, [prefix |-> k, rests |-> <<r>>, fails |-> l.fails]),
            Tail(leaves))

\* the tree of a merged prefix: the leaf itself, or the prefix and the
\* sorted nested list of the rests
NestedTree(c, m) ==
  IF Len(m.rests) = 1 THEN UseTree(m.prefix \o m.rests[1], m.fails)
  ELSE
    LET sorted == SortTrees(c, [k \in 1..Len(m.rests) |-> UseTree(m.rests[k], FALSE)])
    IN  UseTree(m.prefix \o <<List([k \in 1..Len(sorted) |-> sorted[k].path])>>,
                m.fails)

\* normalize_use_trees_with_granularity
NormalizeUseTreesWithGranularity(c, uts) ==
  CASE c.imports_granularity = "Preserve" -> uts
    [] c.imports_granularity = "Item" -> FlattenUseTrees(uts)
    [] OTHER ->
      LET merged == MergeUseTrees(c.imports_granularity, <<>>, FlattenUseTrees(uts))
      IN  [k \in 1..Len(merged) |-> NestedTree(c, merged[k])]

\* ----------------------------------------------------------- group_imports

Std == <<115, 116, 100>>

Alloc == <<97, 108, 108, 111, 99>>

Core == <<99, 111, 114, 101>>

\* the vector group_imports pushes a tree to
GroupOf(ut) ==
  IF ut.path = <<>> THEN "external"
  ELSE IF ut.path[1].kind = "Ident" THEN
    IF ut.path[1].name \in {Std, Alloc, Core} THEN "std" ELSE "external"
  ELSE IF ut.path[1].kind \in {"Slf", "Super", "Crate"} THEN "local"
  ELSE "external"

IsStdImport(ut) == GroupOf(ut) = "std"

IsExternalImport(ut) == GroupOf(ut) = "external"

IsLocalImport(ut) == GroupOf(ut) = "local"

IsNamedExternalImport(ut) ==
  GroupOf(ut) = "external" /\ ut.path # <<>> /\ ut.path[1].kind = "Ident"

\* the mutant: the arms for a glob, a nested list and an empty path are
\* missing
GroupImportsLosingUnnamed(uts) ==
  <<SelectSeq(uts, IsStdImport),
    SelectSeq(uts, IsNamedExternalImport),
    SelectSeq(uts, IsLocalImport)>>

\* group_imports
GroupImports(uts) ==
  <<SelectSeq(uts, IsStdImport),
    SelectSeq(uts, IsExternalImport),
    SelectSeq(uts, IsLocalImport)>>

\* ----------------------------------- rewrite_reorderable_or_regroupable_items

\* the text of a rewritten run: a sequence of lines and blank lines.  A line
\* is the rewritten declaration items[idx] (mod, extern crate) or the
\* rewritten use tree of the given path (use)
Line(idx, path) == [t |-> "line", idx |-> idx, path |-> path]

Blank == [t |-> "blank", idx |-> 0, path |-> <<>>]

\* rewrite_extern_crate and rewrite_mod
RewriteExternCrateOrMod(its, i) == [ok |-> ~its[i].fails, tok |-> Line(i, <<>>)]

\* rewrite_reorderable_item
RewriteReorderableItem(its, i) ==
  IF its[i].kind \in {"ExternCrate", "Mod"} THEN RewriteExternCrateOrMod(its, i)
  ELSE [ok |-> FALSE, tok |-> Line(i, <<>>)]

\* UseTree::rewrite_top_level
RewriteTopLevel(ut) == [ok |-> ~ut.fails, tok |-> Line(0, ut.path)]

\* write_list with an empty separator: every item on a line of its own, Err
\* if an item is Err
WriteList(list_items) ==
  IF \A k \in 1..Len(list_items) : list_items[k].ok
  THEN [ok |-> TRUE, text |-> [k \in 1..Len(list_items) |-> list_items[k].tok]]
  ELSE [ok |-> FALSE, text |-> <<>>]

\* wrap_reorderable_items
WrapReorderableItems(list_items) == WriteList(list_items)

\* filter_map: the Some values, in order
RECURSIVE FilterMap(_)
FilterMap(opts) ==
  IF opts = <<>> THEN <<>> ELSE Head(opts) \o FilterMap(Tail(opts))

\* the match on group_imports
RegroupItems(c, normalized_items) ==
  IF c.group_imports \in {"Preserve", "One"} THEN <<normalized_items>>
  ELSE GroupImports(normalized_items)

\* regrouped_items.iter_mut().for_each(|items| items.sort())
SortGroups(c, regrouped_items) ==
  IF c.reorder_imports
  THEN [g \in 1..Len(regrouped_items) |-> SortTrees(c, regrouped_items[g])]
  ELSE regrouped_items

IsNonEmpty(use_group) == use_group # <<>>

\* the mutant: the empty groups are wrapped too
WrapGroupsKeepingEmpty(regrouped_items) ==
  [g \in 1..Len(regrouped_items) |->
    WrapReorderableItems(
      [k \in 1..Len(regrouped_items[g]) |-> RewriteTopLevel(regrouped_items[g][k])])]

\* the rendering of the groups: the non-empty ones, each wrapped
WrapGroups(regrouped_items) ==
  LET groups == SelectSeq(regrouped_items, IsNonEmpty)
  IN  [g \in 1..Len(groups) |->
        WrapReorderableItems(
          [k \in 1..Len(groups[g]) |-> RewriteTopLevel(groups[g][k])])]

\* item_vec.join("\n\n")
RECURSIVE Join(_)
Join(item_vec) ==
  IF item_vec = <<>> THEN <<>>
  ELSE IF Len(item_vec) = 1 THEN item_vec[1]
  ELSE item_vec[1] \o <<Blank>> \o Join(Tail(item_vec))

IsOk(result) == result.ok

\* the mutant: a group whose wrapping failed is left out
CollectAndJoinSkippingErr(wrapped) ==
  LET kept == SelectSeq(wrapped, IsOk)
  IN  [ok |-> TRUE, text |-> Join([g \in 1..Len(kept) |-> kept[g].text]),
       panic |-> FALSE]

\* .collect::<Result<Vec<_>, RewriteError>>()? and the join
CollectAndJoin(wrapped) ==
  IF \E g \in 1..Len(wrapped) : ~wrapped[g].ok
  THEN [ok |-> FALSE, text |-> <<>>, panic |-> FALSE]
  ELSE [ok |-> TRUE, text |-> Join([g \in 1..Len(wrapped) |-> wrapped[g].text]),
        panic |-> FALSE]

\* the ast::ItemKind::Use arm
RewriteUseItems(c, its, lo, hi) ==
  LET normalized_items ==
        NormalizeUseTreesWithGranularity(c,
          FilterMap([k \in 1..(hi - lo + 1) |->
                      FromAstWithNormalization(c, its[lo + k - 1])]))
      regrouped_items == SortGroups(c, RegroupItems(c, normalized_items))
  IN  IF c.narrow THEN [ok |-> FALSE, text |-> <<>>, panic |-> FALSE]
      ELSE CollectAndJoin(WrapGroups(regrouped_items))

\* one step of the stable sort of the run by compare_items
RECURSIVE InsertItem(_, _, _, _)
InsertItem(c, its, sorted, i) ==
  IF sorted = <<>> THEN <<i>>
  ELSE IF CompareItems(c, its[i], its[Head(sorted)]) = "Less" THEN <<i>> \o sorted
  ELSE <<Head(sorted)>> \o InsertItem(c, its, Tail(sorted), i)

\* item_pair_vec.sort_by(|a, b| compare_items(a.1, b.1, context))
RECURSIVE SortItems(_, _, _)
SortItems(c, its, run) ==
  IF run = <<>> THEN <<>>
  ELSE InsertItem(c, its, SortItems(c, its, SubSeq(run, 1, Len(run) - 1)),
                  run[Len(run)])

\* the other arm: mod and extern crate
RewriteModOrExternCrateItems(c, its, lo, hi) ==
  LET run == [k \in 1..(hi - lo + 1) |-> lo + k - 1]
      sorted == SortItems(c, its, run)
      rw == WrapReorderableItems(
              [k \in 1..Len(sorted) |-> RewriteReorderableItem(its, sorted[k])])
  IN  IF \E i, j \in lo..hi : i # j /\ CompareItems(c, its[i], its[j]) = "Unreachable"
      THEN [ok |-> FALSE, text |-> <<>>, panic |-> TRUE]
      ELSE [ok |-> rw.ok, text |-> rw.text, panic |-> FALSE]

\* rewrite_reorderable_or_regroupable_items on the run items[lo..hi]
RewriteItems(c, its, lo, hi) ==
  IF its[lo].kind = "Use" THEN RewriteUseItems(c, its, lo, hi)
  ELSE RewriteModOrExternCrateItems(c, its, lo, hi)

\* ------------------------------------------------------------- FmtVisitor

\* what the visitor pushes:
\*   "rewrite"  push_rewrite(span of items[lo..hi], rw)
\*   "visit"    visit_item(items[lo])
\*   "newline"  push_str("\n"), asked for between items[lo] and items[hi]
\*   "panic"    the unreachable!() of compare_items, sorting items[lo..hi]
RewriteEvent(lo, hi, rw) ==
  [op |-> "rewrite", lo |-> lo, hi |-> hi, rw |-> rw]

VisitEvent(i) == [op |-> "visit", lo |-> i, hi |-> i, rw |-> None]

NewlineEvent(prev, next) == [op |-> "newline", lo |-> prev, hi |-> next, rw |-> None]

PanicEvent(lo, hi) == [op |-> "panic", lo |-> lo, hi |-> hi, rw |-> None]

\* the take_while of walk_reorderable_or_regroupable_items, from items[j]
\* on, with `last.hi` the end line of the item before
RECURSIVE TakeWhile(_, _, _, _, _)
TakeWhile(its, j, item_kind, in_group, last_hi) ==
  IF j > Len(its) THEN 0
  ELSE IF IsSameItemKind(item_kind, its[j])
          /\ (~in_group \/ LineLo(its, j) < last_hi + 2)
  THEN 1 + TakeWhile(its, j + 1, item_kind, in_group,
                     IF in_group THEN LineHi(its, j) ELSE last_hi)
  ELSE 0

\* the mutant: the head of the slice is not counted
ItemLengthWithoutHead(its, p, item_kind, in_group) ==
  TakeWhile(its, p + 1, item_kind, in_group, LineHi(its, p))

\* item_length
ItemLength(its, p, item_kind, in_group) ==
  TakeWhile(its, p, item_kind, in_group, LineHi(its, p))

\* what walk_reorderable_or_regroupable_items pushes for items[p..p+n-1]
PushRun(c, its, p, n) ==
  IF n > 0 /\ \E j \in p..(p + n - 1) : its[j].in_range THEN
    LET rw == RewriteItems(c, its, p, p + n - 1)
    IN  IF rw.panic THEN <<PanicEvent(p, p + n - 1)>>
        ELSE <<RewriteEvent(p, p + n - 1, IF rw.ok THEN Some(rw.text) ELSE None)>>
  ELSE [k \in 1..n |-> RewriteEvent(p + k - 1, p + k - 1, None)]

\* ensure_blank_line_between_items
EnsureBlankLineBetweenItems(its, prev, next) ==
  IF CountNewlines(its, prev, next) < 2 THEN <<NewlineEvent(prev, next)>> ELSE <<>>

\* maybe_ensure_blank_between
MaybeEnsureBlankBetween(its, prev, next) ==
  IF prev # 0 /\ (IsItemLike(its[prev]) \/ IsItemLike(its[next]))
  THEN EnsureBlankLineBetweenItems(its, prev, next)
  ELSE <<>>

\* the head of the remaining slice starts a run
HeadStartsRun ==
  LET item_kind == From(items[pos])
  IN  IsReorderable(item_kind, cfg) \/ IsRegroupable(item_kind, cfg)

Panicked == \E e \in 1..Len(out) : out[e].op = "panic"

Done == pos > Len(items) \/ Panicked

\* visit_items_with_reordering, one turn of the loop: the head starts a run
WalkRun ==
  /\ ~Done
  /\ HeadStartsRun
  /\ LET item_kind == From(items[pos])
         visited_items_num == ItemLength(items, pos, item_kind, InGroup(item_kind, cfg))
         rest == pos + visited_items_num
     IN  /\ out' = out \o PushRun(cfg, items, pos, visited_items_num)
                       \o (IF rest <= Len(items)
                           THEN MaybeEnsureBlankBetween(items, prev_item, rest)
                           ELSE <<>>)
         /\ prev_item' = IF visited_items_num >= 1 THEN rest - 1 ELSE prev_item
         /\ pos' = rest
  /\ UNCHANGED <<cfg, items, cmp>>

\* visit_items_with_reordering, one turn of the loop: the head is visited alone
VisitSingle ==
  /\ ~Done
  /\ ~HeadStartsRun
  /\ out' = out \o MaybeEnsureBlankBetween(items, prev_item, pos) \o <<VisitEvent(pos)>>
  /\ prev_item' = pos
  /\ pos' = pos + 1
  /\ UNCHANGED <<cfg, items, cmp>>

Next == WalkRun \/ VisitSingle

\* the call compare_items(items[1], items[2], context)
Compare ==
  /\ cmp = "None"
  /\ cmp' = CompareItems(cfg, items[1], items[2])
  /\ UNCHANGED <<cfg, items, pos, prev_item, out>>

NextCompare == Compare

\* ------------------------------------------------------------------ inputs

DefaultConfig ==
  [reorder_imports |-> TRUE, reorder_modules |-> TRUE,
   group_imports |-> "Preserve", imports_granularity |-> "Preserve",
   style_edition |-> 2024, narrow |-> FALSE]

GroupImportsTactics == {"Preserve", "StdExternalCrate", "One"}

ImportGranularities == {"Preserve", "Crate", "Module", "Item", "One"}

\* the options the walker reads
WalkConfigs ==
  {[DefaultConfig EXCEPT !.reorder_imports = x[1], !.reorder_modules = x[2],
                         !.group_imports = x[3]] :
     x \in BOOLEAN \X BOOLEAN \X GroupImportsTactics}

\* the sequences of at most MaxItems declarations drawn from a pool
SeqsOf(pool) == UNION {[1..n -> pool] : n \in 1..MaxItems}

InitWalk(pool, configs) ==
  /\ cfg \in configs
  /\ items \in SeqsOf(pool)
  /\ pos = 1
  /\ prev_item = 0
  /\ out = <<>>
  /\ cmp = "None"

\* declarations of every reorder-kind, with and without the skip and
\* macro_use attributes
ClassifyPool ==
  {[DefaultItem EXCEPT !.kind = x[1], !.decl = x[2], !.skip = x[3][1],
                       !.macro_use = x[3][2]] :
     x \in ({"Use", "ExternCrate", "Mod"} \X {TRUE}
             \X {<<FALSE, FALSE>>, <<TRUE, FALSE>>, <<FALSE, TRUE>>})
           \cup {<<"Mod", FALSE, <<FALSE, FALSE>>>>, <<"Fn", FALSE, <<FALSE, FALSE>>>>,
                 <<"Fn", FALSE, <<TRUE, FALSE>>>>}}

InitClassify == InitWalk(ClassifyPool, WalkConfigs)

SpecClassify == InitClassify /\ [][Next]_vars

\* declarations of the three reorderable kinds one or two lines high, directly
\* below the declaration before or after one blank line, and a function
GroupPool ==
  {[DefaultItem EXCEPT !.kind = x[1], !.decl = TRUE, !.gap = x[2], !.height = x[3]] :
     x \in {"Use", "Mod", "ExternCrate"} \X {1, 2} \X {0, 1}}
  \cup {DefaultItem}

InitGroups == InitWalk(GroupPool, WalkConfigs)

SpecGroups == InitGroups /\ [][Next]_vars

\* imports, module declarations, functions and extern blocks on the line of
\* the declaration before, on the next line, or after one blank line
BlankPool ==
  {[DefaultItem EXCEPT !.kind = x[1], !.decl = TRUE, !.gap = x[2]] :
     x \in {"Use", "Mod", "Fn", "ForeignMod"} \X {0, 1, 2}}

InitBlank == InitWalk(BlankPool, WalkConfigs)

SpecBlank == InitBlank /\ [][Next]_vars

\* imports, module declarations and extern crates named `1` or `2` whose
\* rewrite succeeds, fails, or that lie outside file_lines, and a function
FailurePool ==
  {[DefaultItem EXCEPT !.kind = x[1], !.decl = TRUE, !.ident = x[2],
                       !.path = <<Ident(x[2])>>, !.fails = x[3][1],
                       !.in_range = x[3][2]] :
     x \in {"Use", "Mod", "ExternCrate"} \X {<<49>>, <<50>>}
           \X {<<FALSE, TRUE>>, <<TRUE, TRUE>>, <<FALSE, FALSE>>}}
  \cup {DefaultItem}

\* with and without reorder_imports, in a shape wide enough for `use ;` or not
FailureConfigs ==
  {[DefaultConfig EXCEPT !.reorder_imports = x[1], !.narrow = x[2]] :
     x \in BOOLEAN \X BOOLEAN}

InitFailure == InitWalk(FailurePool, FailureConfigs)

SpecFailure == InitFailure /\ [][Next]_vars

A == <<97>>

B == <<98>>

\* std::b, std::{b, a}, core::a, alloc::a, a::b, self::a, super::a, crate::a,
\* *, {b, a} and the empty path
ImportPaths ==
  {<<Ident(Std), Ident(B)>>,
   <<Ident(Std), List(<<<<Ident(B)>>, <<Ident(A)>>>>)>>,
   <<Ident(Core), Ident(A)>>,
   <<Ident(Alloc), Ident(A)>>,
   <<Ident(A), Ident(B)>>,
   <<Slf, Ident(A)>>,
   <<Super, Ident(A)>>,
   <<Crate, Ident(A)>>,
   <<Glob>>,
   <<List(<<<<Ident(B)>>, <<Ident(A)>>>>)>>,
   <<>>}

ImportPool == {[DefaultItem EXCEPT !.kind = "Use", !.path = p] : p \in ImportPaths}

\* the options of the import arm
ImportConfigs ==
  {[DefaultConfig EXCEPT !.reorder_imports = x[1], !.group_imports = x[2],
                         !.imports_granularity = x[3]] :
     x \in BOOLEAN \X GroupImportsTactics \X ImportGranularities}

InitImports == InitWalk(ImportPool, ImportConfigs)

SpecImports == InitImports /\ [][Next]_vars

\* the identifiers of at most MaxNameLen characters among `1`, `2` and `a`
Names == UNION {[1..n -> {49, 50, 97}] : n \in 1..MaxNameLen}

\* the local names of the renamed crates: `2` and `11`
AliasNames == {<<50>>, <<49, 49>>}

\* `mod <ident>;`
ModItems == {[DefaultItem EXCEPT !.kind = "Mod", !.decl = TRUE, !.ident = n] : n \in Names}

\* `extern crate <ident>;` and `extern crate <orig> as <ident>;`
ExternCrateItems ==
  {[DefaultItem EXCEPT !.kind = "ExternCrate", !.ident = n] : n \in Names}
  \cup {[DefaultItem EXCEPT !.kind = "ExternCrate", !.orig = Some(x[1]), !.ident = x[2]] :
          x \in Names \X AliasNames}

\* the declarations of the kind of a declaration
SameKindItems(a) == IF a.kind = "Mod" THEN ModItems ELSE ExternCrateItems

InitCompare ==
  /\ cfg \in {[DefaultConfig EXCEPT !.style_edition = e] : e \in StyleEditions}
  /\ items \in {<<a, b>> : a, b \in ModItems} \cup {<<a, b>> : a, b \in ExternCrateItems}
  /\ pos = 1
  /\ prev_item = 0
  /\ out = <<>>
  /\ cmp = "None"

SpecCompare == InitCompare /\ [][NextCompare]_vars

\* ------------------------------------------------------ the ordering claims

\* the policy of a name comparison: code points up to edition 2021, version
\* sort above
NameOrder(c, x, y) == IF c.style_edition > 2021 THEN VersionSort(x, y) ELSE StrCmp(x, y)

IsAliased(a) == a.orig # None

OriginName(a) == IF IsAliased(a) THEN a.orig[1] ELSE a.ident

\* the reference order of two declarations of one kind
ReferenceOrder(c, a, b) ==
  IF a.kind = "Mod" THEN NameOrder(c, a.ident, b.ident)
  ELSE IF NameOrder(c, OriginName(a), OriginName(b)) # "Equal"
    THEN NameOrder(c, OriginName(a), OriginName(b))
  ELSE IF IsAliased(a) # IsAliased(b)
    THEN (IF IsAliased(b) THEN "Less" ELSE "Greater")
  ELSE IF IsAliased(a) THEN NameOrder(c, a.ident, b.ident)
  ELSE "Equal"

\* C7: compare_items returns the reference order of every same-kind pair:
\* modules by name; extern crates by origin name, then unaliased before
\* aliased, then by alias; names by code point up to edition 2021 and by
\* version sort above.
C7_CompareItemsIsReferenceOrder ==
  cmp # "None" => cmp = ReferenceOrder(cfg, items[1], items[2])

\* two renamed crates of one origin, locally `2` and `11`, compared under
\* version sort: `2` is first
C7_Witness ==
  /\ cmp = "Less"
  /\ cfg.style_edition = 2024
  /\ items[1].kind = "ExternCrate" /\ items[2].kind = "ExternCrate"
  /\ IsAliased(items[1]) /\ IsAliased(items[2])
  /\ items[1].orig = items[2].orig
  /\ items[1].ident = <<50>> /\ items[2].ident = <<49, 49>>

AtMost(o) == o \in {"Less", "Equal"}

Reverse(o) ==
  CASE o = "Less" -> "Greater"
    [] o = "Greater" -> "Less"
    [] OTHER -> o

\* C8: for a fixed edition compare_items is a consistent ordering of each
\* kind: compare(a, a) is Equal, compare(b, a) is the reverse of
\* compare(a, b), and Less/Equal chains compose.
C8_CompareItemsIsConsistent ==
  cmp # "None" =>
    LET a == items[1]
        b == items[2]
    IN  /\ cmp \in {"Less", "Equal", "Greater"}
        /\ CompareItems(cfg, a, a) = "Equal"
        /\ CompareItems(cfg, b, a) = Reverse(cmp)
        /\ AtMost(cmp) =>
             \A x \in SameKindItems(a) :
               AtMost(CompareItems(cfg, b, x)) =>
                 /\ AtMost(CompareItems(cfg, a, x))
                 /\ (cmp = "Less" \/ CompareItems(cfg, b, x) = "Less")
                      => CompareItems(cfg, a, x) = "Less"

\* an aliased crate compared with the unaliased crate of the same origin
C8_Witness ==
  /\ cmp = "Greater"
  /\ items[1].kind = "ExternCrate" /\ items[2].kind = "ExternCrate"
  /\ IsAliased(items[1]) /\ ~IsAliased(items[2])
  /\ OriginName(items[1]) = OriginName(items[2])

\* ------------------------------------------------------- the walker claims

Rewrites == {e \in 1..Len(out) : out[e].op = "rewrite"}

Marked(item) == item.skip \/ item.macro_use

\* C3: a declaration with a skip or macro_use attribute is Other whatever
\* its kind; no run handed to the rewriter contains it, so none spans it,
\* and it is emitted by visit_item.
C3_MarkedIsOtherAndVisitedAlone ==
  \A i \in 1..Len(items) :
    Marked(items[i]) =>
      /\ From(items[i]) = "Other"
      /\ \A e \in Rewrites : ~(out[e].lo <= i /\ i <= out[e].hi)
      /\ i < pos => \E e \in 1..Len(out) : out[e] = VisitEvent(i)

\* three imports, the second with an attribute: the first and the third are
\* rewritten as two runs of one, the second is visited
C3_Witness ==
  /\ Len(items) = 3 /\ pos = 4
  /\ \A i \in 1..3 : items[i].kind = "Use"
  /\ ~Marked(items[1]) /\ items[2].macro_use /\ ~Marked(items[3])
  /\ out = <<RewriteEvent(1, 1, Some(<<Line(0, <<>>)>>)), VisitEvent(2),
             RewriteEvent(3, 3, Some(<<Line(0, <<>>)>>))>>

\* C10: every run handed to the rewriter is non-empty and of one
\* reorder-kind, Use, Mod or ExternCrate, so compare_items only meets
\* Mod/Mod and ExternCrate/ExternCrate pairs and never its unreachable!().
C10_RunsAreHomogeneous ==
  /\ ~Panicked
  /\ \A e \in Rewrites :
       /\ 1 <= out[e].lo /\ out[e].lo <= out[e].hi /\ out[e].hi <= Len(items)
       /\ items[out[e].lo].kind \in {"Use", "Mod", "ExternCrate"}
       /\ \A j \in out[e].lo..out[e].hi :
            /\ items[j].kind = items[out[e].lo].kind
            /\ ~Marked(items[j])
            /\ items[j].kind = "Mod" => items[j].decl
       /\ items[out[e].lo].kind # "Use" =>
            \A i, j \in out[e].lo..out[e].hi :
              CompareItems(cfg, items[i], items[j]) # "Unreachable"

\* a run of two extern crates followed by a run of one module
C10_Witness ==
  /\ Len(items) = 3 /\ pos = 4
  /\ items[1].kind = "ExternCrate" /\ items[2].kind = "ExternCrate"
  /\ items[3].kind = "Mod"
  /\ Len(out) = 2
  /\ out[1].op = "rewrite" /\ out[1].lo = 1 /\ out[1].hi = 2 /\ out[1].rw # None
  /\ out[2].op = "rewrite" /\ out[2].lo = 3 /\ out[2].hi = 3 /\ out[2].rw # None

\* the reorder-kinds whose runs end at a blank line
ChecksGroupBoundary(item_kind) ==
  \/ item_kind \in {"Mod", "ExternCrate"}
  \/ item_kind = "Use" /\ cfg.group_imports = "Preserve"

\* items[j + 1] starts two or more lines after the line items[j] ends on
BlankLineAfter(j) == LineLo(items, j + 1) >= LineHi(items, j) + 2

\* C5: a run of same-kind declarations is split between two consecutive
\* declarations exactly when the kind checks group boundaries (Mod and
\* ExternCrate always, Use only under group_imports = Preserve) and the later
\* one starts two or more lines after the line the earlier one ends on.
C5_RunSplitsExactlyAtBlankLine ==
  (~Done /\ HeadStartsRun) =>
    LET item_kind == From(items[pos])
        n == ItemLength(items, pos, item_kind, InGroup(item_kind, cfg))
        last == pos + n - 1
    IN  /\ n >= 1
        /\ \A j \in pos..(last - 1) :
             ~(ChecksGroupBoundary(item_kind) /\ BlankLineAfter(j))
        /\ (last < Len(items) /\ From(items[last + 1]) = item_kind) =>
             (ChecksGroupBoundary(item_kind) /\ BlankLineAfter(last))

\* two module declarations with a blank line between them, the first two
\* lines high: two runs of one
C5_Witness ==
  /\ Len(items) = 2 /\ pos = 3
  /\ items[1].kind = "Mod" /\ items[2].kind = "Mod"
  /\ items[1].height = 1 /\ items[2].gap = 2
  /\ out = <<RewriteEvent(1, 1, Some(<<Line(1, <<>>)>>)),
             RewriteEvent(2, 2, Some(<<Line(2, <<>>)>>))>>

\* the declaration before items[i] or items[i] is item-like, and fewer than
\* two newlines lie between them
NeedsBlankLineBefore(i) ==
  /\ i > 1
  /\ IsItemLike(items[i - 1]) \/ IsItemLike(items[i])
  /\ CountNewlines(items, i - 1, i) < 2

\* C6: before every run and every singly visited declaration the walker
\* checks the gap between the declaration emitted last and the one about to
\* be emitted, and pushes one newline when one of the two is item-like and
\* the gap holds fewer than two newlines; it pushes none otherwise.
C6_BlankLineBeforeEveryUnit ==
  \A e \in 1..Len(out) :
    /\ out[e].op \in {"rewrite", "visit"} =>
         (NeedsBlankLineBefore(out[e].lo) <=>
            (e > 1 /\ out[e - 1] = NewlineEvent(out[e].lo - 1, out[e].lo)))
    /\ out[e].op = "newline" =>
         /\ out[e].hi = out[e].lo + 1
         /\ \A d \in 1..Len(out) : out[d] = out[e] => d = e

\* the declarations covered by what was pushed, in the order pushed
RECURSIVE Covered(_)
Covered(events) ==
  IF events = <<>> THEN <<>>
  ELSE (IF Head(events).op \in {"rewrite", "visit"}
        THEN [k \in 1..(Head(events).hi - Head(events).lo + 1) |-> Head(events).lo + k - 1]
        ELSE <<>>) \o Covered(Tail(events))

C9_Safe ==
  /\ pos <= Len(items) + 1
  /\ Covered(out) = [k \in 1..(pos - 1) |-> k]
  /\ (~Done /\ HeadStartsRun) =>
       LET item_kind == From(items[pos])
           n == ItemLength(items, pos, item_kind, InGroup(item_kind, cfg))
       IN  1 <= n /\ n <= Len(items) - pos + 1

\* C9: visit_items_with_reordering terminates and consumes every declaration
\* exactly once, in order: every turn of the loop moves the head forward and
\* never past the end, a run has at least one declaration and at most those
\* that remain, and the walker advances past it whether its rewrite
\* succeeded or failed.
C9_WalkerConsumesEveryItemOnce ==
  /\ []C9_Safe
  /\ [][pos' > pos]_vars

\* a run of two whose rewrite failed, then the function after it visited
C9_Witness ==
  /\ Len(items) = 3 /\ pos = 4
  /\ items[1].fails
  /\ out[1] = RewriteEvent(1, 2, None)
  /\ out[Len(out)] = VisitEvent(3)

\* ----------------------------------------------------- the rewriter claims

RECURSIVE SeqBag(_)
SeqBag(seq) ==
  IF seq = <<>> THEN EmptyBag ELSE SetToBag({Head(seq)}) (+) SeqBag(Tail(seq))

\* the leaf paths of a sequence of use paths
RECURSIVE LeafPaths(_)
LeafPaths(paths) ==
  IF paths = <<>> THEN <<>>
  ELSE LET leaves == Leaves(UseTree(Head(paths), FALSE))
       IN  [k \in 1..Len(leaves) |-> leaves[k].path] \o LeafPaths(Tail(paths))

IsLine(token) == token.t = "line"

\* the paths of the lines of a text
LinePaths(text) ==
  LET lines == SelectSeq(text, IsLine) IN [k \in 1..Len(lines) |-> lines[k].path]

\* the declarations on the lines of a text
LineItems(text) ==
  LET lines == SelectSeq(text, IsLine) IN [k \in 1..Len(lines) |-> lines[k].idx]

\* the paths of the run items[lo..hi]
RunPaths(lo, hi) == [k \in 1..(hi - lo + 1) |-> items[lo + k - 1].path]

\* the trees of the run items[lo..hi] after normalization
NormalizedRun(lo, hi) ==
  NormalizeUseTreesWithGranularity(cfg,
    FilterMap([k \in 1..(hi - lo + 1) |-> FromAstWithNormalization(cfg, items[lo + k - 1])]))

TreePaths(uts) == [k \in 1..Len(uts) |-> uts[k].path]

\* C1: when one declaration of a run cannot be rewritten, the rewrite of the
\* run fails and the walker pushes the original text of the whole span; a
\* rewritten run holds every declaration of the run, mod and extern crate
\* declarations in the order of compare_items.
C1_FailedRunKeepsOriginalText ==
  \A e \in Rewrites :
    LET lo == out[e].lo
        hi == out[e].hi
    IN  /\ (\E j \in lo..hi : items[j].fails) => out[e].rw = None
        /\ out[e].rw # None =>
             LET text == out[e].rw[1]
             IN  IF items[lo].kind = "Use"
                 THEN SeqBag(LeafPaths(LinePaths(text))) = SeqBag(LeafPaths(RunPaths(lo, hi)))
                 ELSE /\ Len(text) = hi - lo + 1
                      /\ SeqBag(LineItems(text)) = SeqBag([k \in 1..(hi - lo + 1) |-> lo + k - 1])
                      /\ \A k \in 1..(Len(text) - 1) :
                           CompareItems(cfg, items[text[k].idx], items[text[k + 1].idx])
                             \in {"Less", "Equal"}

\* a run of three imports, only the second failing: the span keeps its text
C1_Witness ==
  /\ Len(items) = 3 /\ pos = 4
  /\ \A i \in 1..3 : items[i].kind = "Use" /\ items[i].in_range
  /\ ~items[1].fails /\ items[2].fails /\ ~items[3].fails
  /\ ~cfg.narrow
  /\ out = <<RewriteEvent(1, 3, None)>>

\* C2: the leaf paths the rewriter renders for an import run are, as a
\* multiset, those of the run's declarations, under every
\* imports_granularity, group_imports and reorder_imports; and group_imports
\* puts every tree in exactly one of its three groups.
C2_ImportLeavesArePreserved ==
  \A e \in Rewrites :
    (items[out[e].lo].kind = "Use" /\ out[e].rw # None) =>
      LET normalized == NormalizedRun(out[e].lo, out[e].hi)
          groups == GroupImports(normalized)
      IN  /\ SeqBag(LeafPaths(LinePaths(out[e].rw[1])))
               = SeqBag(LeafPaths(RunPaths(out[e].lo, out[e].hi)))
          /\ Len(groups) = 3
          /\ SeqBag(groups[1] \o groups[2] \o groups[3]) = SeqBag(normalized)

\* `use *; use std::{b, a}; use std::b;` merged by crate and grouped: the
\* two std imports become one tree, and three leaves are rendered
C2_Witness ==
  /\ Len(items) = 3 /\ pos = 4
  /\ cfg.imports_granularity = "Crate" /\ cfg.group_imports = "StdExternalCrate"
  /\ items[1].path = <<Glob>>
  /\ items[2].path = <<Ident(Std), List(<<<<Ident(B)>>, <<Ident(A)>>>>)>>
  /\ items[3].path = <<Ident(Std), Ident(B)>>
  /\ Len(out) = 1 /\ out[1].rw # None
  /\ Len(LinePaths(out[1].rw[1])) = 2
  /\ Len(LeafPaths(LinePaths(out[1].rw[1]))) = 4

\* the group of a path by its first segment: 1 standard, 2 external, 3 local
GroupRank(path) ==
  IF path = <<>> THEN 2
  ELSE IF path[1].kind = "Ident" /\ path[1].name \in {Std, Alloc, Core} THEN 1
  ELSE IF path[1].kind \in {"Slf", "Super", "Crate"} THEN 3
  ELSE 2

\* C4: under group_imports = StdExternalCrate every tree of a run is
\* rendered in the group of its first path segment (std, alloc, core:
\* standard; self, super, crate: local; anything else: external), the groups
\* in the order standard, external, local, and exactly one blank line between
\* two groups that are not empty.
C4_GroupsInOrderSeparatedByOneBlank ==
  \A e \in Rewrites :
    (items[out[e].lo].kind = "Use" /\ out[e].rw # None
       /\ cfg.group_imports = "StdExternalCrate") =>
      LET text == out[e].rw[1]
      IN  /\ SeqBag(LinePaths(text)) = SeqBag(TreePaths(NormalizedRun(out[e].lo, out[e].hi)))
          /\ text # <<>>
          /\ IsLine(text[1]) /\ IsLine(text[Len(text)])
          /\ \A k \in 1..(Len(text) - 1) :
               IF IsLine(text[k])
               THEN IsLine(text[k + 1]) => GroupRank(text[k].path) = GroupRank(text[k + 1].path)
               ELSE /\ k > 1 /\ IsLine(text[k - 1]) /\ IsLine(text[k + 1])
                    /\ GroupRank(text[k - 1].path) < GroupRank(text[k + 1].path)

\* `use self::a; use a::b; use std::b;` sorted and grouped: std::b, a blank
\* line, a::b, a blank line, self::a
C4_Witness ==
  /\ cfg.group_imports = "StdExternalCrate" /\ cfg.reorder_imports
  /\ Len(items) = 3
  /\ items[1].path = <<Slf, Ident(A)>>
  /\ items[2].path = <<Ident(A), Ident(B)>>
  /\ items[3].path = <<Ident(Std), Ident(B)>>
  /\ out = <<RewriteEvent(1, 3,
               Some(<<Line(0, <<Ident(Std), Ident(B)>>), Blank,
                      Line(0, <<Ident(A), Ident(B)>>), Blank,
                      Line(0, <<Slf, Ident(A)>>)>>))>>

=============================================================================
